---- MODULE Spec2Model ----
(***************************************************************************)
(* Model of the retrying HTTP transport of github.com/jlourenc/xgo         *)
(* (package xnet/xhttp): the options of NewRetryTransport,                  *)
(* retryTransport.RoundTrip, its request and response classification,      *)
(* computeWaitDuration, and xio.DrainClose.                                 *)
(*                                                                         *)
(* A RoundTrip call is a process whose position is pc; several calls may   *)
(* run on one transport.  The executor (t.next), the rewind accessor       *)
(* (req.GetBody), the wait timer, the clock, the random source, the        *)
(* request context and the reads of a response body are the environment:   *)
(* every outcome they can produce is a nondeterministic choice.            *)
(*                                                                         *)
(* Durations are whole nanoseconds, as time.Duration; a float64 is the     *)
(* ratio num/den of two integers.                                          *)
(***************************************************************************)
EXTENDS Integers, Sequences, FiniteSets, TLC

(***************************************************************************)
(* Bounds of the model.                                                    *)
(***************************************************************************)
\* executor calls one RoundTrip may start before the model stops exploring,
\* under Spec, SpecReq and SpecResp
MaxCalls == 3

MaxCallsReq == 2

MaxCallsResp == 2

(***************************************************************************)
(* Input spaces.                                                           *)
(***************************************************************************)
\* net/http method constants
Methods == {"GET", "HEAD", "PUT", "DELETE", "OPTIONS", "TRACE", "POST", "PATCH", "CONNECT"}

\* value returned by Header.Get: "" when the header is absent or empty
HeaderVals == {"", "k"}

\* req.Body: nil, http.NoBody, or a reader holding a payload
Bodies == {"nil", "NoBody", "data"}

Requests ==
    [Method : Methods, IdempotencyKey : HeaderVals, XIdempotencyKey : HeaderVals,
     Body : Bodies, GetBody : BOOLEAN]

\* requests explored in depth under Spec
MainRequests ==
    {r \in Requests : /\ r.Method \in {"GET", "POST"}
                      /\ r.XIdempotencyKey = ""
                      /\ r.Body # "nil"}

\* requests explored under SpecResp: a body-less GET, a POST with an
\* idempotency key and a rewindable payload, a plain POST
RespRequests ==
    {r \in Requests : \/ /\ r.Method = "GET" /\ r.Body = "NoBody" /\ ~r.GetBody
                         /\ r.IdempotencyKey = "" /\ r.XIdempotencyKey = ""
                      \/ /\ r.Method = "POST" /\ r.Body = "data" /\ r.GetBody
                         /\ r.IdempotencyKey = "k" /\ r.XIdempotencyKey = ""
                      \/ /\ r.Method = "POST" /\ r.Body = "NoBody" /\ ~r.GetBody
                         /\ r.IdempotencyKey = "" /\ r.XIdempotencyKey = ""}

\* status codes the executor answers with under Spec and SpecReq
Statuses == {204, 413, 429, 503}

\* every three-digit status code, the first answer under SpecResp
AllStatuses == 100..599

\* Retry-After response header as returned by Header.Get
RetryAfterVals == {"", "1"}

\* transport-level errors of the executor
Errors == {"errNoResponse", "errNoBody"}

Responses == [StatusCode : Statuses, RetryAfter : RetryAfterVals]

AllResponses == [StatusCode : AllStatuses, RetryAfter : RetryAfterVals]

\* identities of the RoundTrip calls of a run
OneCall == {1}

(***************************************************************************)
(* Time, floats and the policy of a transport.                             *)
(***************************************************************************)
\* time.Second and time.Millisecond as time.Duration values
Second == 1000000000

Millisecond == 1000000

\* the float64 num/den
Float(num, den) == [num |-> num, den |-> den]

\* the transport built by the test of RoundTrip: NewRetryTransport with
\* initial interval 10ms, multiplier 2, no jitter, max interval 20ms
TestPolicy ==
    [next               |-> "fakeTransport",
     initialInterval    |-> 10 * Millisecond,
     intervalMultiplier |-> Float(2, 1),
     jitterFactor       |-> Float(0, 1),
     maxInterval        |-> 20 * Millisecond]

\* readings of the clock, in nanoseconds since the Unix epoch
Nows == {0, 500000000, 1500000000, 2000000000}

\* rand.Float64() draws from [0.0, 1.0): the model draws r/RandDen
RandDen == 4

Rands == 0..(RandDen - 1)

(***************************************************************************)
(* State.                                                                  *)
(***************************************************************************)
VARIABLES
    ctor,   \* the construction of the transport: options built, panic, return
    t,      \* the retryTransport: next and the four policy fields
    rt,     \* the RoundTrip calls: for each call, its locals and environment
    header,     \* the http.Header handed to ReplaceHeader: nil or a map
    replaced,   \* the last ReplaceHeader call: its arguments, the headers before
    exist,      \* a call of xsort.Exist: its arguments, locals and result
    rc,         \* the ReadCloser handed to xio.DrainClose and the call's progress
    joined,     \* a call of xerrors.Join: its arguments and what it returned
    dim         \* a call of xmath.DimInt or xmath.DimInt64: arguments and result

\* the state of the functions outside the retry transport
utils == <<header, replaced, exist, rc, joined, dim>>

vars == <<ctor, t, rt, utils>>

\* Fields of rt[c]:
\*   req            the request passed by the caller
\*   traceRetry     TRUE iff a ClientTrace with a non-nil Retry hook is on the context
\*   ctxDone        the request context is canceled (ctx.Done() is closed)
\*   pc             position of the call
\*   reqRetryable   local reqRetryable
\*   retryCount     local retryCount
\*   retryInterval  local retryInterval
\*   rewinds        successful GetBody calls; the local req is a clone iff > 0
\*   reqBody        body of the local req: 0 the caller's, k the k-th rewound body
\*   resps          responses the executor returned without error, in order
\*   bodies         state of the body of each response of resps
\*   nextErr        error of the last executor call, "nil" if none
\*   calls          body of the request handed to the executor, per call
\*   timer          the wait timer of the current iteration
\*   timers         timers created so far
\*   waits          per timer, the duration d it was created with and the
\*                  clock reading now of time.Until (-1 when it was not called)
\*   hookLog        RetryInfo values passed to the Retry hook, in order
\*   ret            what RoundTrip returned

\* the first call of a run
req == rt[1].req

traceRetry == rt[1].traceRetry

ctxDone == rt[1].ctxDone

pc == rt[1].pc

reqRetryable == rt[1].reqRetryable

retryCount == rt[1].retryCount

retryInterval == rt[1].retryInterval

rewinds == rt[1].rewinds

reqBody == rt[1].reqBody

resps == rt[1].resps

bodies == rt[1].bodies

nextErr == rt[1].nextErr

calls == rt[1].calls

timer == rt[1].timer

timers == rt[1].timers

waits == rt[1].waits

hookLog == rt[1].hookLog

ret == rt[1].ret

(***************************************************************************)
(* Pure functions.                                                         *)
(***************************************************************************)
\* mutant: the legacy X-Idempotency-Key header is not looked at
isRequestIdempotent_noLegacyKey(r) ==
    CASE r.Method \in {"DELETE", "GET", "HEAD", "OPTIONS", "PUT", "TRACE"} -> TRUE
      [] OTHER -> r.IdempotencyKey # ""

isRequestIdempotent(r) ==
    CASE r.Method \in {"DELETE", "GET", "HEAD", "OPTIONS", "PUT", "TRACE"} -> TRUE
      [] OTHER -> r.IdempotencyKey # "" \/ r.XIdempotencyKey # ""

\* mutant: every request counts as rewindable
isRequestRewindable_always(r) ==
    TRUE

isRequestRewindable(r) ==
    r.Body = "nil" \/ r.Body = "NoBody" \/ r.GetBody

\* mutant: 413 is retryable whatever its headers
isResponseRetryable_413always(resp) ==
    CASE resp.StatusCode \in {408, 425, 429} -> TRUE
      [] resp.StatusCode = 413 -> TRUE
      [] resp.StatusCode \in {500, 502, 503, 504} -> TRUE
      [] OTHER -> FALSE

\* mutant: 503 is left out of the retryable statuses
isResponseRetryable_no503(resp) ==
    CASE resp.StatusCode \in {408, 425, 429} -> TRUE
      [] resp.StatusCode = 413 -> resp.RetryAfter # ""
      [] resp.StatusCode \in {500, 502, 504} -> TRUE
      [] OTHER -> FALSE

isResponseRetryable(resp) ==
    CASE resp.StatusCode \in {408, 425, 429} -> TRUE
      [] resp.StatusCode = 413 -> resp.RetryAfter # ""
      [] resp.StatusCode \in {500, 502, 503, 504} -> TRUE
      [] OTHER -> FALSE

\* xio.DrainClose on a body in state b; derr and cerr are the outcomes of
\* io.Copy and of Close.  Returns the new state of the body and the error.
DrainClose(b, derr, cerr) ==
    IF b = "nil"
    THEN [body |-> "nil", err |-> "nil"]
    ELSE [body |-> IF derr = "nil" THEN "drained+closed" ELSE "closed",
          err  |-> IF cerr # "nil" THEN cerr ELSE derr]

Last(s) == s[Len(s)]

\* the decimal strings of the model and the integers strconv.Atoi reads in
\* them: an optional sign, then digits
Numerals ==
    ("0" :> 0) @@ ("1" :> 1) @@ ("2" :> 2) @@ ("+2" :> 2) @@ ("-1" :> -1) @@ ("-2" :> -2)

\* strconv.Atoi
Atoi(s) ==
    IF s \in DOMAIN Numerals
    THEN [val |-> Numerals[s], err |-> "nil"]
    ELSE [val |-> 0, err |-> "ErrSyntax"]

\* the HTTP dates of the model and the instants http.ParseTime reads in
\* them, in nanoseconds since the Unix epoch
HTTPDates ==
    ("Thu, 01 Jan 1970 00:00:00 GMT" :> 0) @@
    ("Thu, 01 Jan 1970 00:00:01 GMT" :> Second) @@
    ("Thu, 01 Jan 1970 00:00:02 GMT" :> 2 * Second)

\* http.ParseTime
ParseTime(s) ==
    IF s \in DOMAIN HTTPDates
    THEN [val |-> HTTPDates[s], err |-> "nil"]
    ELSE [val |-> 0, err |-> "ErrParse"]

\* text that is neither an integer nor an HTTP date
Garbage == {"soon", "1.5"}

\* every Retry-After value of the model
AllRetryAfterVals == {""} \cup DOMAIN Numerals \cup DOMAIN HTTPDates \cup Garbage

\* time.Duration(f) for a float64 f = num/den with den > 0: the fraction
\* is dropped, towards zero
Truncate(num, den) ==
    IF num >= 0 THEN num \div den ELSE -((-num) \div den)

\* TRUE iff computeWaitDuration reads the clock (time.Until) for these headers
ReadsClock(headers) ==
    /\ headers.RetryAfter # ""
    /\ Atoi(headers.RetryAfter).err # "nil"
    /\ ParseTime(headers.RetryAfter).err = "nil"

\* TRUE iff computeWaitDuration draws from the random source (rand.Float64)
DrawsRand(jitterFactor, headers) ==
    /\ \/ headers.RetryAfter = ""
       \/ /\ Atoi(headers.RetryAfter).err # "nil"
          /\ ParseTime(headers.RetryAfter).err # "nil"
    /\ jitterFactor.num # 0

\* mutant: the integer of Retry-After is taken as milliseconds
computeWaitDuration_retryAfterMillis(interval, jitterFactor, headers, rnd, now) ==
    LET retryAfter == headers.RetryAfter
        secs  == Atoi(retryAfter)
        date  == ParseTime(retryAfter)
        den   == jitterFactor.den * RandDen
        delta == jitterFactor.num * interval * RandDen
        minInterval == interval * den - delta
    IN  IF retryAfter # "" /\ secs.err = "nil" THEN secs.val * Millisecond
        ELSE IF retryAfter # "" /\ date.err = "nil" THEN date.val - now
        ELSE IF jitterFactor.num = 0 THEN interval
        ELSE Truncate(minInterval + 2 * rnd * jitterFactor.num * interval, den)

\* mutant: a negative duration read in Retry-After is raised to zero
computeWaitDuration_clamped(interval, jitterFactor, headers, rnd, now) ==
    LET retryAfter == headers.RetryAfter
        secs  == Atoi(retryAfter)
        date  == ParseTime(retryAfter)
        den   == jitterFactor.den * RandDen
        delta == jitterFactor.num * interval * RandDen
        minInterval == interval * den - delta
        Clamp(d) == IF d < 0 THEN 0 ELSE d
    IN  IF retryAfter # "" /\ secs.err = "nil" THEN Clamp(secs.val * Second)
        ELSE IF retryAfter # "" /\ date.err = "nil" THEN Clamp(date.val - now)
        ELSE IF jitterFactor.num = 0 THEN interval
        ELSE Truncate(minInterval + 2 * rnd * jitterFactor.num * interval, den)

\* mutant: a Retry-After header that cannot be read means no wait
computeWaitDuration_unreadableIsZero(interval, jitterFactor, headers, rnd, now) ==
    LET retryAfter == headers.RetryAfter
        secs  == Atoi(retryAfter)
        date  == ParseTime(retryAfter)
        den   == jitterFactor.den * RandDen
        delta == jitterFactor.num * interval * RandDen
        minInterval == interval * den - delta
    IN  IF retryAfter # "" /\ secs.err = "nil" THEN secs.val * Second
        ELSE IF retryAfter # "" /\ date.err = "nil" THEN date.val - now
        ELSE IF retryAfter # "" THEN 0
        ELSE IF jitterFactor.num = 0 THEN interval
        ELSE Truncate(minInterval + 2 * rnd * jitterFactor.num * interval, den)

\* lines 181-201; rnd/RandDen is the draw of rand.Float64() and now the
\* reading of the clock
computeWaitDuration(interval, jitterFactor, headers, rnd, now) ==
    LET retryAfter == headers.RetryAfter
        secs  == Atoi(retryAfter)
        date  == ParseTime(retryAfter)
        \* delta = jitterFactor * interval and minInterval = interval - delta,
        \* over the common denominator jitterFactor.den * RandDen
        den   == jitterFactor.den * RandDen
        delta == jitterFactor.num * interval * RandDen
        minInterval == interval * den - delta
    IN  IF retryAfter # "" /\ secs.err = "nil" THEN secs.val * Second
        ELSE IF retryAfter # "" /\ date.err = "nil" THEN date.val - now
        ELSE IF jitterFactor.num = 0 THEN interval
        ELSE Truncate(minInterval + 2 * rnd * jitterFactor.num * interval, den)

\* lines 166-169: the interval of the next wait
NextInterval(interval, policy) ==
    LET grown == Truncate(interval * policy.intervalMultiplier.num,
                          policy.intervalMultiplier.den)
    IN  IF grown > policy.maxInterval THEN policy.maxInterval ELSE grown

(***************************************************************************)
(* Initial states: the transport is built with one of policies, and        *)
(* RoundTrip is about to be called, once per member of ids, with any       *)
(* request of requests.                                                    *)
(***************************************************************************)
\* NewRetryTransport has returned
Returned == [phase |-> "returned", args |-> <<>>, options |-> <<>>]

\* the calls ids, not yet entered, each with a request of requests
FreshCalls(requests, ids) ==
    [ids ->
                [req : requests,
                 traceRetry : BOOLEAN,
                 ctxDone : {FALSE},
                 pc : {"start"},
                 reqRetryable : {FALSE},
                 retryCount : {0},
                 retryInterval : {0},
                 rewinds : {0},
                 reqBody : {0},
                 resps : {<<>>},
                 bodies : {<<>>},
                 nextErr : {"nil"},
                 calls : {<<>>},
                 timer : {"none"},
                 timers : {0},
                 waits : {<<>>},
                 hookLog : {<<>>},
                 ret : {[returned |-> FALSE, resp |-> 0, err |-> "nil", path |-> "none"]}]]

\* a nil http.Header; a non-nil one has isNil FALSE and m a function from
\* the keys it holds to their value lists
NilHeader == [isNil |-> TRUE, m |-> <<>>]

\* no ReplaceHeader call was made
NotReplaced ==
    [done |-> FALSE, before |-> NilHeader, prefix |-> <<>>, key |-> <<>>, values |-> <<>>]

\* Exist is not called
NoExist ==
    [n |-> 0, cmp |-> <<>>, pc |-> "idle", i |-> 0, j |-> 0, called |-> <<>>, ret |-> FALSE]

\* DrainClose is not called
NoDrainClose ==
    [isNil |-> TRUE, data |-> 0, failAt |-> -1, closeErr |-> "nil", pc |-> "idle",
     reads |-> 0, closes |-> 0, derr |-> "nil", ret |-> "nil"]

\* the nil error
NilError == [kind |-> "nil", id |-> 0]

\* Join is not called
NotJoined ==
    [done |-> FALSE, errs |-> <<>>, ret |-> [isNil |-> TRUE, errs |-> <<>>]]

\* neither DimInt nor DimInt64 is called
NoDim == [fn |-> "none", x |-> 0, y |-> 0, done |-> FALSE, ret |-> 0]

InitWith(requests, policies, ids) ==
    /\ ctor = Returned
    /\ t \in policies
    /\ rt \in FreshCalls(requests, ids)
    /\ header = NilHeader
    /\ replaced = NotReplaced
    /\ exist = NoExist
    /\ rc = NoDrainClose
    /\ joined = NotJoined
    /\ dim = NoDim

(***************************************************************************)
(* Steps of the RoundTrip call c.                                          *)
(***************************************************************************)
\* lines 127-135: the locals set before the loop
Begin(c) ==
    /\ ctor.phase = "returned"
    /\ rt[c].pc = "start"
    /\ rt' = [rt EXCEPT ![c] =
                [@ EXCEPT !.reqRetryable = isRequestIdempotent(rt[c].req)
                                               /\ isRequestRewindable(rt[c].req),
                          !.retryCount = 0,
                          !.retryInterval = t.initialInterval,
                          !.pc = "loop"]]
    /\ UNCHANGED <<ctor, t, utils>>

\* line 138: t.next.RoundTrip(req) is entered
CallNext(c, max) ==
    /\ rt[c].pc = "loop"
    /\ Len(rt[c].calls) < max
    /\ rt' = [rt EXCEPT ![c] =
                [@ EXCEPT !.calls = Append(@, rt[c].reqBody),
                          !.pc = "in_flight"]]
    /\ UNCHANGED <<ctor, t, utils>>

\* mutant: a failed executor call is tried again
ReturnError_retried(c) ==
    /\ rt[c].pc = "in_flight"
    /\ \E e \in Errors :
        rt' = [rt EXCEPT ![c] = [@ EXCEPT !.nextErr = e, !.pc = "loop"]]
    /\ UNCHANGED <<ctor, t, utils>>

\* lines 138-141: the executor fails; its error is returned as is
ReturnError(c) ==
    /\ rt[c].pc = "in_flight"
    /\ \E e \in Errors :
        rt' = [rt EXCEPT ![c] =
                [@ EXCEPT !.nextErr = e,
                          !.ret = [returned |-> TRUE, resp |-> 0, err |-> e, path |-> "error"],
                          !.pc = "done"]]
    /\ UNCHANGED <<ctor, t, utils>>

\* mutant: an answer that arrives after the context was canceled is dropped
\* and the cancellation is reported
NextResponse_abortedWhenDone(c, first, later) ==
    /\ rt[c].pc = "in_flight"
    /\ \E r \in (IF rt[c].resps = <<>> THEN first ELSE later) :
        rt' = [rt EXCEPT ![c] =
                IF rt[c].ctxDone
                THEN [@ EXCEPT !.ret = [returned |-> TRUE, resp |-> Len(rt[c].resps),
                                        err |-> "context canceled", path |-> "cancel"],
                               !.pc = "done"]
                ELSE [@ EXCEPT !.resps = Append(@, r),
                               !.bodies = Append(@, "open"),
                               !.pc = "got"]]
    /\ UNCHANGED <<ctor, t, utils>>

\* line 138: the executor answers with a response whose body is open; the
\* first answer is drawn from first, the following ones from later
NextResponse(c, first, later) ==
    /\ rt[c].pc = "in_flight"
    /\ \E r \in (IF rt[c].resps = <<>> THEN first ELSE later) :
        rt' = [rt EXCEPT ![c] =
                [@ EXCEPT !.resps = Append(@, r),
                          !.bodies = Append(@, "open"),
                          !.pc = "got"]]
    /\ UNCHANGED <<ctor, t, utils>>

\* lines 143-145: nothing to retry
ReturnResponse(c) ==
    /\ rt[c].pc = "got"
    /\ ~rt[c].reqRetryable \/ ~isResponseRetryable(Last(rt[c].resps))
    /\ rt' = [rt EXCEPT ![c] =
                [@ EXCEPT !.ret = [returned |-> TRUE, resp |-> Len(rt[c].resps),
                                   err |-> "nil", path |-> "final"],
                          !.pc = "done"]]
    /\ UNCHANGED <<ctor, t, utils>>

\* mutant: the error of GetBody is returned to the caller
RewindFail_error(c) ==
    /\ rt[c].pc = "got"
    /\ rt[c].reqRetryable /\ isResponseRetryable(Last(rt[c].resps))
    /\ rt[c].req.GetBody
    /\ rt' = [rt EXCEPT ![c] =
                [@ EXCEPT !.ret = [returned |-> TRUE, resp |-> Len(rt[c].resps),
                                   err |-> "errNoBody", path |-> "rewind"],
                          !.pc = "done"]]
    /\ UNCHANGED <<ctor, t, utils>>

\* mutant: the response is drained and closed before it is returned
RewindFail_drained(c) ==
    /\ rt[c].pc = "got"
    /\ rt[c].reqRetryable /\ isResponseRetryable(Last(rt[c].resps))
    /\ rt[c].req.GetBody
    /\ rt' = [rt EXCEPT ![c] =
                [@ EXCEPT !.bodies = [@ EXCEPT ![Len(@)] = "drained+closed"],
                          !.ret = [returned |-> TRUE, resp |-> Len(rt[c].resps),
                                   err |-> "nil", path |-> "rewind"],
                          !.pc = "done"]]
    /\ UNCHANGED <<ctor, t, utils>>

\* lines 148-152: GetBody fails; the last response is returned
RewindFail(c) ==
    /\ rt[c].pc = "got"
    /\ rt[c].reqRetryable /\ isResponseRetryable(Last(rt[c].resps))
    /\ rt[c].req.GetBody
    /\ rt' = [rt EXCEPT ![c] =
                [@ EXCEPT !.ret = [returned |-> TRUE, resp |-> Len(rt[c].resps),
                                   err |-> "nil", path |-> "rewind"],
                          !.pc = "done"]]
    /\ UNCHANGED <<ctor, t, utils>>

\* mutant: the fresh body is installed on the caller's request, no clone
StartTimer_noClone(c) ==
    /\ rt[c].pc = "got"
    /\ rt[c].reqRetryable /\ isResponseRetryable(Last(rt[c].resps))
    /\ LET headers == [RetryAfter |-> Last(rt[c].resps).RetryAfter] IN
       \E rnd \in (IF DrawsRand(t.jitterFactor, headers) THEN Rands ELSE {0}),
          now \in (IF ReadsClock(headers) THEN Nows ELSE {0}) :
        LET d == computeWaitDuration(rt[c].retryInterval, t.jitterFactor, headers, rnd, now)
        IN  rt' = [rt EXCEPT ![c] =
                    [@ EXCEPT !.req = IF rt[c].req.GetBody
                                      THEN [@ EXCEPT !.Body = "rewound"] ELSE @,
                              !.rewinds = IF rt[c].req.GetBody THEN @ + 1 ELSE @,
                              !.reqBody = IF rt[c].req.GetBody THEN rt[c].rewinds + 1 ELSE @,
                              !.timer = "running",
                              !.timers = @ + 1,
                              !.waits = Append(@, [d |-> d,
                                                    now |-> IF ReadsClock(headers)
                                                            THEN now ELSE -1]),
                              !.pc = "select"]]
    /\ UNCHANGED <<ctor, t, utils>>

\* lines 148-157: the request is cloned around a fresh body when GetBody is
\* set, and the wait timer is created with the duration computeWaitDuration
\* returns for a draw of the random source and a reading of the clock
StartTimer(c) ==
    /\ rt[c].pc = "got"
    /\ rt[c].reqRetryable /\ isResponseRetryable(Last(rt[c].resps))
    /\ LET headers == [RetryAfter |-> Last(rt[c].resps).RetryAfter] IN
       \E rnd \in (IF DrawsRand(t.jitterFactor, headers) THEN Rands ELSE {0}),
          now \in (IF ReadsClock(headers) THEN Nows ELSE {0}) :
        LET d == computeWaitDuration(rt[c].retryInterval, t.jitterFactor, headers, rnd, now)
        IN  rt' = [rt EXCEPT ![c] =
                    [@ EXCEPT !.rewinds = IF rt[c].req.GetBody THEN @ + 1 ELSE @,
                              !.reqBody = IF rt[c].req.GetBody THEN rt[c].rewinds + 1 ELSE @,
                              !.timer = "running",
                              !.timers = @ + 1,
                              !.waits = Append(@, [d |-> d,
                                                    now |-> IF ReadsClock(headers)
                                                            THEN now ELSE -1]),
                              !.pc = "select"]]
    /\ UNCHANGED <<ctor, t, utils>>

\* mutant: the select does not wait for the timer once the context is
\* canceled, it goes on to the next attempt
Select_retriesWhenDone(c) ==
    /\ rt[c].pc = "select"
    /\ \/ rt[c].ctxDone /\ rt' = [rt EXCEPT ![c].pc = "case_timer"]
       \/ rt[c].timer = "fired" /\ rt' = [rt EXCEPT ![c].pc = "case_timer"]
       \/ ~rt[c].ctxDone /\ rt[c].timer # "fired" /\ rt' = [rt EXCEPT ![c].pc = "blocked"]
    /\ UNCHANGED <<ctor, t, utils>>

\* line 158: the select statement is entered.  A case that is ready is taken,
\* any of them when both are; with none ready the goroutine blocks.
Select(c) ==
    /\ rt[c].pc = "select"
    /\ \/ rt[c].ctxDone /\ rt' = [rt EXCEPT ![c].pc = "case_done"]
       \/ rt[c].timer = "fired" /\ rt' = [rt EXCEPT ![c].pc = "case_timer"]
       \/ ~rt[c].ctxDone /\ rt[c].timer # "fired" /\ rt' = [rt EXCEPT ![c].pc = "blocked"]
    /\ UNCHANGED <<ctor, t, utils>>

\* the context is canceled by its owner; a goroutine blocked in the select
\* is woken on the ctx.Done() case
Cancel(c) ==
    /\ ~rt[c].ctxDone
    /\ rt[c].pc # "done"
    /\ rt' = [rt EXCEPT ![c] =
                [@ EXCEPT !.ctxDone = TRUE,
                          !.pc = IF @ = "blocked" THEN "case_done" ELSE @]]
    /\ UNCHANGED <<ctor, t, utils>>

\* the wait elapses; a goroutine blocked in the select is woken on timer.C.
\* A timer created with a duration of zero or less has elapsed already.
TimerFire(c) ==
    /\ rt[c].timer = "running"
    /\ rt[c].pc \in {"select", "blocked", "case_done"}
    /\ rt' = [rt EXCEPT ![c] =
                [@ EXCEPT !.timer = "fired",
                          !.pc = IF @ = "blocked" THEN "case_timer" ELSE @]]
    /\ UNCHANGED <<ctor, t, utils>>

\* mutant: cancellation is reported as an error
CaseDone_ctxErr(c) ==
    /\ rt[c].pc = "case_done"
    /\ rt' = [rt EXCEPT ![c] =
                [@ EXCEPT !.timer = IF @ = "running" THEN "stopped" ELSE @,
                          !.ret = [returned |-> TRUE, resp |-> Len(rt[c].resps),
                                   err |-> "context canceled", path |-> "cancel"],
                          !.pc = "done"]]
    /\ UNCHANGED <<ctor, t, utils>>

\* mutant: the timer is left running
CaseDone_noStop(c) ==
    /\ rt[c].pc = "case_done"
    /\ rt' = [rt EXCEPT ![c] =
                [@ EXCEPT !.ret = [returned |-> TRUE, resp |-> Len(rt[c].resps),
                                   err |-> "nil", path |-> "cancel"],
                          !.pc = "done"]]
    /\ UNCHANGED <<ctor, t, utils>>

\* mutant: the retry hook is invoked on cancellation too
CaseDone_hook(c) ==
    /\ rt[c].pc = "case_done"
    /\ rt' = [rt EXCEPT ![c] =
                [@ EXCEPT !.timer = IF @ = "running" THEN "stopped" ELSE @,
                          !.hookLog = IF rt[c].traceRetry
                                      THEN Append(@, [RetryCount |-> rt[c].retryCount + 1,
                                                      StatusCode |-> Last(rt[c].resps).StatusCode])
                                      ELSE @,
                          !.ret = [returned |-> TRUE, resp |-> Len(rt[c].resps),
                                   err |-> "nil", path |-> "cancel"],
                          !.pc = "done"]]
    /\ UNCHANGED <<ctor, t, utils>>

\* lines 159-161: case <-ctx.Done()
CaseDone(c) ==
    /\ rt[c].pc = "case_done"
    /\ rt' = [rt EXCEPT ![c] =
                [@ EXCEPT !.timer = IF @ = "running" THEN "stopped" ELSE @,
                          !.ret = [returned |-> TRUE, resp |-> Len(rt[c].resps),
                                   err |-> "nil", path |-> "cancel"],
                          !.pc = "done"]]
    /\ UNCHANGED <<ctor, t, utils>>

\* mutant: the superseded response body is not drained and closed
CaseTimer_noDrain(c) ==
    /\ rt[c].pc = "case_timer"
    /\ rt' = [rt EXCEPT ![c] =
                [@ EXCEPT !.retryInterval = NextInterval(@, t),
                          !.retryCount = @ + 1,
                          !.hookLog = IF rt[c].traceRetry
                                      THEN Append(@, [RetryCount |-> rt[c].retryCount + 1,
                                                      StatusCode |-> Last(rt[c].resps).StatusCode])
                                      ELSE @,
                          !.timer = "none",
                          !.pc = "loop"]]
    /\ UNCHANGED <<ctor, t, utils>>

\* mutant: the hook is given the retry count before it is incremented
CaseTimer_hookBeforeIncrement(c) ==
    /\ rt[c].pc = "case_timer"
    /\ \E derr \in {"nil", "errRead"}, cerr \in {"nil", "errClose"} :
        rt' = [rt EXCEPT ![c] =
                [@ EXCEPT !.bodies = [@ EXCEPT ![Len(@)] = DrainClose(@, derr, cerr).body],
                          !.retryInterval = NextInterval(@, t),
                          !.retryCount = @ + 1,
                          !.hookLog = IF rt[c].traceRetry
                                      THEN Append(@, [RetryCount |-> rt[c].retryCount,
                                                      StatusCode |-> Last(rt[c].resps).StatusCode])
                                      ELSE @,
                          !.timer = "none",
                          !.pc = "loop"]]
    /\ UNCHANGED <<ctor, t, utils>>

\* mutant: the attempts are capped, the response is returned after the
\* second retry
CaseTimer_capped(c) ==
    /\ rt[c].pc = "case_timer"
    /\ \E derr \in {"nil", "errRead"}, cerr \in {"nil", "errClose"} :
        rt' = [rt EXCEPT ![c] =
                [@ EXCEPT !.bodies = [@ EXCEPT ![Len(@)] = DrainClose(@, derr, cerr).body],
                          !.retryInterval = NextInterval(@, t),
                          !.retryCount = @ + 1,
                          !.hookLog = IF rt[c].traceRetry
                                      THEN Append(@, [RetryCount |-> rt[c].retryCount + 1,
                                                      StatusCode |-> Last(rt[c].resps).StatusCode])
                                      ELSE @,
                          !.timer = "none",
                          !.ret = IF rt[c].retryCount + 1 >= 2
                                  THEN [returned |-> TRUE, resp |-> Len(rt[c].resps),
                                        err |-> "nil", path |-> "final"]
                                  ELSE @,
                          !.pc = IF rt[c].retryCount + 1 >= 2 THEN "done" ELSE "loop"]]
    /\ UNCHANGED <<ctor, t, utils>>

\* mutant: the grown interval is kept in the transport, not in a local
CaseTimer_sharedInterval(c) ==
    /\ rt[c].pc = "case_timer"
    /\ \E derr \in {"nil", "errRead"}, cerr \in {"nil", "errClose"} :
        rt' = [rt EXCEPT ![c] =
                [@ EXCEPT !.bodies = [@ EXCEPT ![Len(@)] = DrainClose(@, derr, cerr).body],
                          !.retryInterval = NextInterval(@, t),
                          !.retryCount = @ + 1,
                          !.hookLog = IF rt[c].traceRetry
                                      THEN Append(@, [RetryCount |-> rt[c].retryCount + 1,
                                                      StatusCode |-> Last(rt[c].resps).StatusCode])
                                      ELSE @,
                          !.timer = "none",
                          !.pc = "loop"]]
    /\ t' = [t EXCEPT !.initialInterval = NextInterval(rt[c].retryInterval, t)]
    /\ UNCHANGED <<ctor, utils>>

\* lines 162-177: case <-timer.C, then the rest of the iteration
CaseTimer(c) ==
    /\ rt[c].pc = "case_timer"
    /\ \E derr \in {"nil", "errRead"}, cerr \in {"nil", "errClose"} :
        rt' = [rt EXCEPT ![c] =
                [@ EXCEPT !.bodies = [@ EXCEPT ![Len(@)] = DrainClose(@, derr, cerr).body],
                          !.retryInterval = NextInterval(@, t),
                          !.retryCount = @ + 1,
                          !.hookLog = IF rt[c].traceRetry
                                      THEN Append(@, [RetryCount |-> rt[c].retryCount + 1,
                                                      StatusCode |-> Last(rt[c].resps).StatusCode])
                                      ELSE @,
                          !.timer = "none",
                          !.pc = "loop"]]
    /\ UNCHANGED <<ctor, t, utils>>

\* one step of the RoundTrip call c, with at most max executor calls, the
\* first answered from first and the following ones from later
RoundTrip(c, max, first, later) ==
    \/ Begin(c)
    \/ CallNext(c, max)
    \/ ReturnError(c)
    \/ NextResponse(c, first, later)
    \/ ReturnResponse(c)
    \/ RewindFail(c)
    \/ StartTimer(c)
    \/ Select(c)
    \/ CaseDone(c)
    \/ CaseTimer(c)

Init == InitWith(MainRequests, {TestPolicy}, OneCall)

Next == RoundTrip(1, MaxCalls, Responses, Responses) \/ Cancel(1) \/ TimerFire(1)

Spec == Init /\ [][Next]_vars

\* every request, fewer attempts
InitReq == InitWith(Requests, {TestPolicy}, OneCall)

NextReq == RoundTrip(1, MaxCallsReq, Responses, Responses) \/ Cancel(1) \/ TimerFire(1)

SpecReq == InitReq /\ [][NextReq]_vars

\* every status code in the first answer, fewer requests and attempts
InitResp == InitWith(RespRequests, {TestPolicy}, OneCall)

NextResp == RoundTrip(1, MaxCallsResp, AllResponses, Responses) \/ Cancel(1) \/ TimerFire(1)

SpecResp == InitResp /\ [][NextResp]_vars

(***************************************************************************)
(* Vocabulary of the properties.                                           *)
(***************************************************************************)
IdempotentMethods == {"GET", "HEAD", "PUT", "DELETE", "OPTIONS", "TRACE"}

\* the executor calls that have returned
Answered == Len(resps) + (IF nextErr = "nil" THEN 0 ELSE 1)

\* hook invocations expected after n retries
HookCallsAfter(n) == IF traceRetry THEN n ELSE 0

\* RoundTrip or its timer can take a step
CanStep == ENABLED (RoundTrip(1, MaxCalls, Responses, Responses) \/ TimerFire(1))

\* the model stops exploring here: one more executor call is due
AtCallBound == pc = "loop" /\ Len(calls) = MaxCalls

(***************************************************************************)
(* C1. An idempotent, body-less request whose context is never canceled    *)
(* and whose executor answers 503 N times and then 204: the executor is    *)
(* called exactly N+1 times (no call follows the 204, no return precedes   *)
(* it), RoundTrip does not block, and it returns the 204 response with a   *)
(* nil error after exactly N retries.                                      *)
(***************************************************************************)
C1_Premise ==
    /\ req.Method \in IdempotentMethods
    /\ req.Body \in {"nil", "NoBody"}
    /\ ~ctxDone
    /\ nextErr = "nil"
    /\ ret.path # "rewind"
    /\ \A i \in 1..Len(resps) : resps[i].StatusCode \in {503, 204}

C1_RetriesUntil204 ==
    C1_Premise =>
        /\ \A i \in 1..(Len(resps) - 1) : resps[i].StatusCode = 503
        /\ Len(calls) \in {Len(resps), Len(resps) + 1}
        /\ pc # "done" => CanStep \/ AtCallBound
        /\ ret.returned =>
            /\ Len(resps) > 0
            /\ Last(resps).StatusCode = 204
            /\ ret.resp = Len(resps)
            /\ ret.err = "nil"
            /\ Len(calls) = Len(resps)
            /\ retryCount = Len(resps) - 1

C1_Witness ==
    /\ C1_Premise
    /\ ret.returned
    /\ Len(resps) = 3
    /\ resps[1].StatusCode = 503 /\ resps[2].StatusCode = 503 /\ resps[3].StatusCode = 204

(***************************************************************************)
(* C2. Once the executor has returned an error, on the first attempt or    *)
(* after retries, RoundTrip has returned that very error, and no executor  *)
(* call, timer or hook invocation was added after the failing call.        *)
(***************************************************************************)
C2_ErrorReturnedAtOnce ==
    nextErr # "nil" =>
        /\ pc = "done"
        /\ ret.returned
        /\ ret.err = nextErr
        /\ ret.path = "error"
        /\ Len(calls) = Len(resps) + 1
        /\ timers = Len(resps)
        /\ timer = "none"
        /\ retryCount = Len(resps)
        /\ Len(hookLog) = HookCallsAfter(Len(resps))

C2_Witness ==
    /\ nextErr = "errNoResponse"
    /\ ret.returned
    /\ Len(resps) = 2

(***************************************************************************)
(* C3. A request that is not a retry candidate (a non-idempotent method    *)
(* without idempotency key, or a payload without rewind accessor) gets     *)
(* exactly one executor call whatever the status of the response, and the  *)
(* response is returned with a nil error and zero retries.                 *)
(***************************************************************************)
C3_NotCandidate(r) ==
    \/ /\ r.Method \notin IdempotentMethods
       /\ r.IdempotencyKey = ""
       /\ r.XIdempotencyKey = ""
    \/ /\ r.Body = "data"
       /\ ~r.GetBody

C3_NonCandidateNeverRetried ==
    C3_NotCandidate(req) =>
        /\ Len(calls) <= 1
        /\ retryCount = 0
        /\ timers = 0
        /\ rewinds = 0
        /\ hookLog = <<>>
        /\ Len(resps) = 1 => pc \in {"got", "done"}
        /\ ret.returned /\ nextErr = "nil" =>
            /\ Len(calls) = 1
            /\ ret.resp = 1
            /\ ret.err = "nil"
            /\ ret.path = "final"

C3_Witness ==
    /\ C3_NotCandidate(req)
    /\ req.Method = "POST"
    /\ ret.returned
    /\ Len(resps) = 1
    /\ resps[1].StatusCode = 503


(***************************************************************************)
(* C4. For a candidate request, a response leads to a wait (or to a rewind *)
(* failure) exactly when its status is 408, 425, 429, 500, 502, 503 or     *)
(* 504, or 413 with a non-empty Retry-After; any other response, 413       *)
(* without Retry-After included, is returned at once without a new retry.  *)
(***************************************************************************)
C4_Retryable(resp) ==
    \/ resp.StatusCode \in {408, 425, 429, 500, 502, 503, 504}
    \/ resp.StatusCode = 413 /\ resp.RetryAfter # ""

C4_RetryableStatuses ==
    reqRetryable /\ Len(resps) >= 1 /\ pc # "got" =>
        /\ C4_Retryable(Last(resps)) <=> (timers = Len(resps) \/ ret.path = "rewind")
        /\ ~C4_Retryable(Last(resps)) <=> ret.path = "final"
        /\ ret.path = "final" =>
            /\ timers = Len(resps) - 1
            /\ retryCount = Len(resps) - 1
            /\ Len(calls) = Len(resps)
        /\ \A i \in 1..timers : C4_Retryable(resps[i])

\* a 413 with Retry-After was retried, and the retry answered by a 413
\* without Retry-After was returned
C4_Witness ==
    /\ reqRetryable
    /\ Len(calls) = 2
    /\ Len(resps) = 2
    /\ resps[1] = [StatusCode |-> 413, RetryAfter |-> "1"]
    /\ resps[2] = [StatusCode |-> 413, RetryAfter |-> ""]
    /\ ret.path = "final"
    /\ retryCount = 1

(***************************************************************************)
(* C5. Candidacy is fixed by the first step of RoundTrip, before any       *)
(* executor call, and keeps its value: idempotent method or non-empty      *)
(* (X-)Idempotency-Key header, and body nil, NoBody or GetBody set.  Only  *)
(* candidates are ever retried; a payload without GetBody never is.        *)
(***************************************************************************)
C5_Candidate(r) ==
    /\ \/ r.Method \in IdempotentMethods
       \/ r.IdempotencyKey # ""
       \/ r.XIdempotencyKey # ""
    /\ \/ r.Body = "nil"
       \/ r.Body = "NoBody"
       \/ r.GetBody

C5_Decided ==
    /\ pc = "start" => calls = <<>>
    /\ pc # "start" => reqRetryable = C5_Candidate(req)
    /\ timers > 0 => C5_Candidate(req)
    /\ req.Body = "data" /\ ~req.GetBody =>
        /\ Len(calls) <= 1
        /\ timers = 0
        /\ retryCount = 0
    /\ C5_Candidate(req) /\ Len(resps) >= 1 /\ pc # "got" /\ C4_Retryable(Last(resps)) =>
        timers = Len(resps) \/ ret.path = "rewind"

C5_CandidacyDecidedOnce ==
    /\ []C5_Decided
    /\ [][pc # "start" => reqRetryable' = reqRetryable /\ req' = req]_vars

C5_Witness ==
    /\ req.Method = "PATCH"
    /\ req.IdempotencyKey = ""
    /\ req.XIdempotencyKey = "k"
    /\ req.Body = "data"
    /\ req.GetBody
    /\ Len(calls) = 2
    /\ retryCount = 1

(***************************************************************************)
(* C6. When GetBody fails after a retryable response to a candidate        *)
(* request, RoundTrip returns that response with a nil error; no timer was *)
(* started for it, the hook was not invoked for it and no executor call    *)
(* follows.                                                                *)
(***************************************************************************)
C6_RewindFailure ==
    ret.path = "rewind" =>
        /\ req.GetBody
        /\ C5_Candidate(req)
        /\ C4_Retryable(Last(resps))
        /\ pc = "done"
        /\ ret.resp = Len(resps)
        /\ ret.err = "nil"
        /\ nextErr = "nil"
        /\ Len(calls) = Len(resps)
        /\ timers = Len(resps) - 1
        /\ timer = "none"
        /\ retryCount = Len(resps) - 1
        /\ Len(hookLog) = HookCallsAfter(Len(resps) - 1)

C6_Witness ==
    /\ ret.path = "rewind"
    /\ Len(resps) = 2
    /\ traceRetry
    /\ Last(resps).StatusCode = 429


(***************************************************************************)
(* C7. When the select is decided with the context canceled and the timer  *)
(* not fired (the goroutine is woken by the cancellation while blocked, or *)
(* enters the select after it), the ctx.Done() case is taken: RoundTrip    *)
(* returns the last response with a nil error and calls the executor no    *)
(* more.  For the wait after attempt 1 this is the response of attempt 1.  *)
(***************************************************************************)
C7_Returned ==
    ret.path = "cancel" =>
        /\ ctxDone
        /\ pc = "done"
        /\ ret.resp = Len(resps)
        /\ ret.err = "nil"
        /\ Len(calls) = Len(resps)
        /\ retryCount = Len(resps) - 1

C7_Step ==
    /\ timer = "running" /\ pc = "blocked" /\ ctxDone' => pc' = "case_done"
    /\ timer = "running" /\ pc = "select" /\ ctxDone /\ pc' # "select" => pc' = "case_done"
    /\ pc = "case_done" =>
        /\ pc' \in {"case_done", "done"}
        /\ calls' = calls
        /\ pc' = "done" => ret'.path = "cancel"
    /\ pc = "done" => calls' = calls /\ ret' = ret

C7_CancelDuringWait ==
    /\ []C7_Returned
    /\ [][C7_Step]_vars

\* canceled during the wait after attempt 1, before the timer fired
C7_Witness ==
    /\ ret.path = "cancel"
    /\ timer = "stopped"
    /\ Len(calls) = 1
    /\ ret.resp = 1

(***************************************************************************)
(* C8 as stated. When cancellation wins the race, the timer is stopped and *)
(* the body of the last response is drained and closed before RoundTrip    *)
(* returns that response.                                                  *)
(***************************************************************************)
C8_CancelDrainsBody ==
    ret.path = "cancel" =>
        /\ timer # "running"
        /\ bodies[ret.resp] = "drained+closed"

(***************************************************************************)
(* C8 as amended. When cancellation wins the race, the timer is stopped    *)
(* and the last response is returned with its body neither drained nor     *)
(* closed.                                                                 *)
(***************************************************************************)
C8_CancelStopsTimer ==
    ret.path = "cancel" =>
        /\ timer \in {"stopped", "fired"}
        /\ ret.resp = Len(resps)
        /\ bodies[ret.resp] = "open"

C8_Witness ==
    /\ ret.path = "cancel"
    /\ timer = "stopped"
    /\ Len(resps) = 2
    /\ bodies = <<"drained+closed", "open">>

(***************************************************************************)
(* C9. Whatever the path RoundTrip returns by (final response, rewind      *)
(* failure, cancellation), the response it returns is the last one and its *)
(* body has been neither drained nor closed.                               *)
(***************************************************************************)
C9_ReturnedBodyOpen ==
    ret.returned /\ ret.path # "error" =>
        /\ ret.path \in {"final", "rewind", "cancel"}
        /\ ret.resp = Len(resps)
        /\ ret.resp >= 1
        /\ bodies[ret.resp] = "open"

C9_Witness ==
    /\ ret.path = "rewind"
    /\ Len(resps) = 3
    /\ bodies[3] = "open"
    /\ bodies[1] # "open"

(***************************************************************************)
(* C10 as stated. When the executor is called for attempt k >= 2, the body *)
(* of every earlier response has been fully drained and closed.            *)
(***************************************************************************)
C10_DrainedBeforeNextCall ==
    \A i \in 1..(Len(calls) - 1) : bodies[i] = "drained+closed"

(***************************************************************************)
(* C10 as amended. When the executor is called for attempt k >= 2, the     *)
(* body of every earlier response has been closed, after having been read  *)
(* to its end or to the first read error; only the body of the last        *)
(* response can be open.                                                   *)
(***************************************************************************)
C10_ClosedBeforeNextCall ==
    /\ Len(bodies) = Len(resps)
    /\ \A i \in 1..(Len(calls) - 1) : bodies[i] \in {"drained+closed", "closed"}
    /\ \A i \in 1..Len(bodies) : bodies[i] = "open" => i = Len(calls)

C10_Witness ==
    /\ pc = "in_flight"
    /\ Len(calls) = 3
    /\ bodies = <<"closed", "drained+closed">>


(***************************************************************************)
(* The growth of the backoff interval, over small policies: requests       *)
(* answered 503 or 204 by a transport whose intervals are a few            *)
(* nanoseconds.                                                            *)
(***************************************************************************)
\* executor calls of one RoundTrip under SpecBackoff
MaxCallsBackoff == 4

\* largest initial and max interval under SpecBackoff, in nanoseconds
MaxNanos == 3

Multipliers == {Float(1, 1), Float(3, 2), Float(2, 1)}

\* policies every option constructor accepts, without jitter
BackoffPolicies ==
    [next               : {"fakeTransport"},
     initialInterval    : 1..MaxNanos,
     intervalMultiplier : Multipliers,
     jitterFactor       : {Float(0, 1)},
     maxInterval        : 1..MaxNanos]

BackoffResponses == [StatusCode : {204, 503}, RetryAfter : {""}]

InitBackoff == InitWith(RespRequests, BackoffPolicies, OneCall)

NextBackoff ==
    \/ RoundTrip(1, MaxCallsBackoff, BackoffResponses, BackoffResponses)
    \/ Cancel(1)
    \/ TimerFire(1)

SpecBackoff == InitBackoff /\ [][NextBackoff]_vars

Min(a, b) == IF a <= b THEN a ELSE b

\* C11: with jitter 0 and no Retry-After header, the wait before the
\* (k+1)-th attempt, taken after k retries, is min(I * M^k, Z) for the
\* initial interval I, the multiplier M and the max interval Z of the
\* policy, whatever the order of I and Z.  With M = num/den the equation is
\* stated over the common denominator den^k.
C11_WaitIsMinOfGrowthAndMax ==
    \A i \in 1..Len(waits) :
        LET k == i - 1
            num == t.intervalMultiplier.num
            den == t.intervalMultiplier.den
        IN  waits[i].d * den^k = Min(t.initialInterval * num^k, t.maxInterval * den^k)


(***************************************************************************)
(* The wait computed by computeWaitDuration, over every Retry-After value  *)
(* of the model, policies with and without jitter, every draw of the       *)
(* random source and every reading of the clock.                           *)
(***************************************************************************)
\* executor calls of one RoundTrip under SpecWait
MaxCallsWait == 2

JitterFactors == {Float(0, 1), Float(1, 4), Float(1, 2), Float(1, 1)}

WaitPolicies ==
    [next               : {"fakeTransport"},
     initialInterval    : 1..MaxNanos,
     intervalMultiplier : {Float(2, 1)},
     jitterFactor       : JitterFactors,
     maxInterval        : {MaxNanos + 1}]

WaitResponses == [StatusCode : {204, 503}, RetryAfter : AllRetryAfterVals]

InitWait == InitWith(RespRequests, WaitPolicies, OneCall)

NextWait ==
    \/ RoundTrip(1, MaxCallsWait, WaitResponses, BackoffResponses)
    \/ Cancel(1)
    \/ TimerFire(1)

SpecWait == InitWait /\ [][NextWait]_vars

\* the wait timer of the current iteration exists and retryInterval is
\* still the interval it was computed from
Waiting == pc \in {"select", "blocked", "case_done", "case_timer"}

\* the Retry-After header of the last response yields no duration
NoUsableRetryAfter ==
    LET retryAfter == Last(resps).RetryAfter
    IN  retryAfter = "" \/ (Atoi(retryAfter).err # "nil" /\ ParseTime(retryAfter).err # "nil")

\* C12: with a jitter factor J in [0, 1], an interval I > 0 and no usable
\* Retry-After header, the wait lies in [I * (1 - J), I * (1 + J)] for every
\* draw of the random source, and it is exactly I when J = 0.  With
\* J = num/den the bounds are stated over the denominator den.
C12_WaitWithinJitterBounds ==
    (Waiting /\ NoUsableRetryAfter) =>
        LET d == Last(waits).d
            J == t.jitterFactor
        IN  /\ d * J.den >= retryInterval * (J.den - J.num)
            /\ d * J.den <= retryInterval * (J.den + J.num)
            /\ J.num = 0 => d = retryInterval


\* the Retry-After header of the last response reads as an integer
RetryAfterIsInteger == Last(resps).RetryAfter \in DOMAIN Numerals

\* the Retry-After header of the last response reads as an HTTP date
RetryAfterIsDate == Last(resps).RetryAfter \in DOMAIN HTTPDates

\* C13: a Retry-After header that reads as an integer makes the wait exactly
\* that many seconds, and one that reads as an HTTP date in the future makes
\* it the time remaining until that date, whatever the backoff interval, the
\* jitter and the max interval of the policy.  The seconds of the model are
\* small: their product with time.Second stays within time.Duration.
C13_RetryAfterUsedVerbatim ==
    Waiting =>
        /\ RetryAfterIsInteger =>
               Last(waits).d = Numerals[Last(resps).RetryAfter] * Second
        /\ (RetryAfterIsDate /\ HTTPDates[Last(resps).RetryAfter] > Last(waits).now) =>
               Last(waits).d = HTTPDates[Last(resps).RetryAfter] - Last(waits).now

\* a jittered policy waits the 2 seconds of Retry-After, far above its max
\* interval, before the second attempt
C13_Witness ==
    /\ Waiting
    /\ Len(waits) = 1
    /\ Last(resps).RetryAfter = "2"
    /\ Last(waits).d = 2 * Second
    /\ Last(waits).d > t.maxInterval
    /\ t.jitterFactor.num # 0

\* the duration read in the Retry-After header of the last response is
\* negative: a negative integer, or a date before the reading of the clock
RetryAfterInPast ==
    \/ RetryAfterIsInteger /\ Numerals[Last(resps).RetryAfter] < 0
    \/ RetryAfterIsDate /\ HTTPDates[Last(resps).RetryAfter] < Last(waits).now

\* C14 as stated: the wait computed from a Retry-After header is never
\* negative; a date in the past or a negative integer gives a wait of zero.
C14_RetryAfterWaitClampedToZero ==
    (Waiting /\ (RetryAfterIsInteger \/ RetryAfterIsDate)) =>
        /\ Last(waits).d >= 0
        /\ RetryAfterInPast => Last(waits).d = 0

\* C14: the wait computed from a Retry-After header is not clamped: a
\* negative integer gives that negative number of seconds and a date in the
\* past the negative time remaining, and the timer created with it is one
\* that can fire at once.
C14_RetryAfterWaitNotClamped ==
    (Waiting /\ RetryAfterInPast) =>
        /\ Last(waits).d < 0
        /\ RetryAfterIsInteger =>
               Last(waits).d = Numerals[Last(resps).RetryAfter] * Second
        /\ RetryAfterIsDate =>
               Last(waits).d = HTTPDates[Last(resps).RetryAfter] - Last(waits).now
        /\ timer = "running" => ENABLED TimerFire(1)

\* a date one second in the past gives a wait of minus one second
C14_Witness ==
    /\ Waiting
    /\ Last(resps).RetryAfter = "Thu, 01 Jan 1970 00:00:01 GMT"
    /\ Last(waits).now = 2 * Second
    /\ Last(waits).d = -Second


\* C15: the retry hook, when one is registered, is invoked once per retry,
\* in the call's own step after the wait timer fired and the superseded
\* body went through DrainClose, and before the next executor call starts;
\* its i-th invocation carries RetryCount = i and the status code of the
\* response to attempt i.  Without a hook nothing is invoked.
C15_HookOncePerRetry ==
    /\ [](/\ traceRetry => Len(hookLog) = retryCount
          /\ ~traceRetry => hookLog = <<>>
          /\ \A i \in 1..Len(hookLog) :
                /\ hookLog[i] = [RetryCount |-> i, StatusCode |-> resps[i].StatusCode]
                /\ bodies[i] # "open"
          /\ traceRetry => Len(calls) <= Len(hookLog) + 1)
    /\ [][hookLog' # hookLog =>
            /\ pc = "case_timer" /\ timer = "fired"
            /\ hookLog' = Append(hookLog, [RetryCount |-> Len(hookLog) + 1,
                                           StatusCode |-> Last(resps).StatusCode])
            /\ calls' = calls]_vars

\* two retries after a 503 and a 429: the hook was given (1, 503), then
\* (2, 429), and the third attempt is under way
C15_Witness ==
    /\ traceRetry
    /\ Len(calls) = 3
    /\ hookLog = <<[RetryCount |-> 1, StatusCode |-> 503],
                   [RetryCount |-> 2, StatusCode |-> 429]>>


(***************************************************************************)
(* The construction of a transport: the option constructors are evaluated  *)
(* in order as the arguments of NewRetryTransport, which is entered only   *)
(* when none of them panicked.                                             *)
(***************************************************************************)
\* options passed to one NewRetryTransport call, at most
MaxOptions == 2

\* a < b for two floats with positive denominators
FloatLess(a, b) == a.num * b.den < b.num * a.den

\* what an option constructor does: it panics with a message and returns
\* nothing, or returns the option that sets one field of the transport
Panic(message) == [panic |-> message, option |-> [isNil |-> TRUE]]

Option(field, value) ==
    [panic |-> "nil", option |-> [isNil |-> FALSE, field |-> field, value |-> value]]

\* lines 227-234
RetryTransportInitialInterval(interval) ==
    IF interval <= 0
    THEN Panic("invalid initial interval value")
    ELSE Option("initialInterval", interval)

\* lines 238-245
RetryTransportIntervalMultiplier(multiplier) ==
    IF FloatLess(multiplier, Float(1, 1))
    THEN Panic("invalid interval multiplier value")
    ELSE Option("intervalMultiplier", multiplier)

\* mutant: a jitter factor above 1.0 is accepted
RetryTransportJitterFactor_noUpperBound(factor) ==
    IF FloatLess(factor, Float(0, 1))
    THEN Panic("invalid jitter factor value")
    ELSE Option("jitterFactor", factor)

\* lines 250-257
RetryTransportJitterFactor(factor) ==
    IF FloatLess(factor, Float(0, 1)) \/ FloatLess(Float(1, 1), factor)
    THEN Panic("invalid jitter factor value")
    ELSE Option("jitterFactor", factor)

\* lines 261-268
RetryTransportMaxInterval(interval) ==
    IF interval <= 0
    THEN Panic("invalid max interval value")
    ELSE Option("maxInterval", interval)

\* lines 272-279
RetryTransportNextRoundTripper(next) ==
    IF next = "nil"
    THEN Panic("next http.RoundTripper is nil")
    ELSE Option("next", next)

\* the defaults of NewRetryTransport, lines 84-87 and 105-111, by name
Defaults ==
    [next               |-> "http.DefaultTransport",
     initialInterval    |-> "200ms",
     intervalMultiplier |-> "1.5",
     jitterFactor       |-> "0.2",
     maxInterval        |-> "30s"]

\* lines 113-115: the options applied in order
RECURSIVE ApplyOptions(_, _)
ApplyOptions(transport, options) ==
    IF options = <<>>
    THEN transport
    ELSE ApplyOptions([transport EXCEPT ![Head(options).field] = Head(options).value],
                      Tail(options))

\* arguments the option constructors are called with
IntervalArgs == -1..2

FloatArgs == {Float(-1, 10), Float(0, 1), Float(1, 2), Float(1, 1), Float(11, 10), Float(2, 1)}

NextArgs == {"nil", "fakeTransport"}

\* a call of an option constructor
OptionCalls ==
    [fn : {"RetryTransportInitialInterval", "RetryTransportMaxInterval"}, arg : IntervalArgs]
    \cup [fn : {"RetryTransportIntervalMultiplier", "RetryTransportJitterFactor"}, arg : FloatArgs]
    \cup [fn : {"RetryTransportNextRoundTripper"}, arg : NextArgs]

\* the result of the call
Construct(call) ==
    CASE call.fn = "RetryTransportInitialInterval" -> RetryTransportInitialInterval(call.arg)
      [] call.fn = "RetryTransportIntervalMultiplier" -> RetryTransportIntervalMultiplier(call.arg)
      [] call.fn = "RetryTransportJitterFactor" -> RetryTransportJitterFactor(call.arg)
      [] call.fn = "RetryTransportMaxInterval" -> RetryTransportMaxInterval(call.arg)
      [] call.fn = "RetryTransportNextRoundTripper" -> RetryTransportNextRoundTripper(call.arg)

\* the next argument of NewRetryTransport is evaluated: the constructor
\* panics, which ends the construction, or returns its option
BuildOption ==
    /\ ctor.phase = "args"
    /\ Len(ctor.options) < Len(ctor.args)
    /\ LET r == Construct(ctor.args[Len(ctor.options) + 1])
       IN  ctor' = IF r.panic # "nil"
                   THEN [ctor EXCEPT !.phase = "panicked"]
                   ELSE [ctor EXCEPT !.options = Append(@, r.option)]
    /\ UNCHANGED <<t, rt, utils>>

\* lines 104-118, entered with every argument evaluated
NewRetryTransport ==
    /\ ctor.phase = "args"
    /\ Len(ctor.options) = Len(ctor.args)
    /\ t' = ApplyOptions(Defaults, ctor.options)
    /\ ctor' = [ctor EXCEPT !.phase = "returned"]
    /\ UNCHANGED <<rt, utils>>

\* NewRetryTransport(...) is about to be evaluated with up to MaxOptions
\* option constructor calls as arguments; a request waits for the transport
InitOptions ==
    /\ \E n \in 0..MaxOptions :
        ctor \in [phase : {"args"}, args : [1..n -> OptionCalls], options : {<<>>}]
    /\ t = "none"
    /\ rt \in FreshCalls(RespRequests, OneCall)
    /\ header = NilHeader
    /\ replaced = NotReplaced
    /\ exist = NoExist
    /\ rc = NoDrainClose
    /\ joined = NotJoined
    /\ dim = NoDim

NextOptions == BuildOption \/ NewRetryTransport \/ Begin(1)

SpecOptions == InitOptions /\ [][NextOptions]_vars


\* the values the options reject: an initial or max interval <= 0, a
\* multiplier < 1.0, a jitter factor < 0.0 or > 1.0, a nil round tripper
OutOfRange(call) ==
    CASE call.fn = "RetryTransportInitialInterval" -> call.arg <= 0
      [] call.fn = "RetryTransportMaxInterval" -> call.arg <= 0
      [] call.fn = "RetryTransportIntervalMultiplier" -> call.arg.num < call.arg.den
      [] call.fn = "RetryTransportJitterFactor" ->
            call.arg.num < 0 \/ call.arg.num > call.arg.den
      [] call.fn = "RetryTransportNextRoundTripper" -> call.arg = "nil"

\* C16: an option constructor given an out-of-range value panics when it is
\* called, before NewRetryTransport is entered and before any request is
\* processed; given an in-range value it returns a non-nil option and does
\* not panic.
C16_OutOfRangeOptionPanics ==
    /\ ctor.phase = "panicked" =>
          /\ OutOfRange(ctor.args[Len(ctor.options) + 1])
          /\ t = "none"
          /\ pc = "start"
    /\ \A i \in 1..Len(ctor.options) :
          /\ ~OutOfRange(ctor.args[i])
          /\ ~ctor.options[i].isNil
    /\ ctor.phase = "returned" => Len(ctor.options) = Len(ctor.args)
    /\ pc # "start" => ctor.phase = "returned"

\* a valid initial interval was built, then a jitter factor of 1.1 panicked
C16_Witness ==
    /\ ctor.phase = "panicked"
    /\ Len(ctor.options) = 1
    /\ ctor.args[1] = [fn |-> "RetryTransportInitialInterval", arg |-> 1]
    /\ ctor.args[2] = [fn |-> "RetryTransportJitterFactor", arg |-> Float(11, 10)]


(***************************************************************************)
(* C17. There is no cap on the attempts.  For a retry candidate whose      *)
(* context is never canceled, whose rewind never fails and whose executor  *)
(* always answers with a retryable response, RoundTrip has not returned,   *)
(* every attempt that was answered is followed by a retry, and the call    *)
(* can always take its next step, so a k-th attempt is made for every k.   *)
(* When RoundTrip has returned, it did so on a response that is not        *)
(* retried, on an executor error, on a rewind failure or on a cancellation.*)
(***************************************************************************)
C17_Premise ==
    /\ isRequestIdempotent(req) /\ isRequestRewindable(req)
    /\ ~ctxDone
    /\ nextErr = "nil"
    /\ ret.path # "rewind"
    /\ \A i \in 1..Len(resps) : isResponseRetryable(resps[i])

C17_NoCapOnAttempts ==
    /\ C17_Premise =>
          /\ ~ret.returned
          /\ pc # "done"
          /\ CanStep \/ AtCallBound
          /\ Len(calls) \in {Len(resps), Len(resps) + 1}
          /\ pc = "loop" => retryCount = Len(calls)
    /\ ret.returned =>
          \/ /\ ret.path = "final"
             /\ ~(isRequestIdempotent(req) /\ isRequestRewindable(req))
                    \/ ~isResponseRetryable(resps[ret.resp])
          \/ ret.path = "error" /\ nextErr # "nil" /\ ret.err = nextErr
          \/ ret.path = "rewind" /\ req.GetBody
          \/ ret.path = "cancel" /\ ctxDone

\* every answer so far was retryable and the last attempt the model explores
\* is under way after MaxCalls - 1 retries
C17_Witness ==
    /\ C17_Premise
    /\ pc = "in_flight"
    /\ Len(calls) = MaxCalls
    /\ retryCount = MaxCalls - 1
    /\ Len(resps) = MaxCalls - 1


C18_Positions ==
    /\ pc = "blocked" => ~ctxDone /\ timer = "running"
    /\ pc = "case_timer" => timer = "fired"
    /\ pc = "case_done" => ctxDone

C18_Step ==
    /\ (ctxDone /\ Len(calls) >= 1 /\ calls' # calls) =>
          /\ pc = "loop"
          /\ timer = "none"
          /\ retryCount = Len(calls)
    /\ (ctxDone' /\ pc \in {"select", "blocked"} /\ pc' # pc /\ timer' # "fired") =>
          pc' = "case_done"
    /\ pc \in {"case_done", "done"} => calls' = calls
    /\ (pc = "case_timer" /\ pc' # pc) => pc' = "loop"
    /\ (pc = "loop" /\ pc' # pc) => pc' = "in_flight" /\ Len(calls') = Len(calls) + 1

MaxCallsConc == 2

TwoCalls == {1, 2}

\* a POST with an idempotency key and a rewindable payload
ConcRequests ==
    {r \in Requests : /\ r.Method = "POST" /\ r.Body = "data" /\ r.GetBody
                      /\ r.IdempotencyKey = "k" /\ r.XIdempotencyKey = ""}

InitConc == InitWith(ConcRequests, {TestPolicy}, TwoCalls)

NextConc ==
    \E c \in TwoCalls :
        \/ RoundTrip(c, MaxCallsConc, BackoffResponses, BackoffResponses)
        \/ Cancel(c)
        \/ TimerFire(c)

SpecConc == InitConc /\ [][NextConc]_vars

\* the interval of a call run alone on a transport of this policy, after k
\* retries
RECURSIVE IntervalAfter(_, _)
IntervalAfter(policy, k) ==
    IF k = 0
    THEN policy.initialInterval
    ELSE NextInterval(IntervalAfter(policy, k - 1), policy)

\* what the call c has done is what a call run alone does with the request,
\* the hook and the executor responses of c: its attempts, the waits between
\* them, the arguments of its hook and its locals.  The policy has no jitter
\* and the responses no Retry-After header, so no draw and no reading of the
\* clock enters the waits.
AsAlone(c) ==
    LET me == rt[c]
        candidate == isRequestIdempotent(me.req) /\ isRequestRewindable(me.req)
    IN  /\ me.pc # "start" =>
              /\ me.reqRetryable = candidate
              /\ me.retryInterval = IntervalAfter(t, me.retryCount)
        /\ Len(me.calls) \in {Len(me.resps), Len(me.resps) + 1}
        /\ \A i \in 1..Len(me.calls) :
              me.calls[i] = IF me.req.GetBody THEN i - 1 ELSE 0
        /\ \A i \in 1..Len(me.waits) :
              /\ candidate /\ isResponseRetryable(me.resps[i])
              /\ me.waits[i].d =
                    computeWaitDuration(IntervalAfter(t, i - 1), t.jitterFactor,
                                        [RetryAfter |-> me.resps[i].RetryAfter], 0, 0)
        /\ Len(me.hookLog) = (IF me.traceRetry THEN me.retryCount ELSE 0)
        /\ \A i \in 1..Len(me.hookLog) :
              me.hookLog[i] = [RetryCount |-> i, StatusCode |-> me.resps[i].StatusCode]
        /\ me.retryCount \in {Len(me.waits) - 1, Len(me.waits)}
        /\ me.retryCount = Len(me.waits) - 1 =>
              me.pc \in {"select", "blocked", "case_done", "case_timer", "done"}

\* C19: concurrent RoundTrip calls on one transport do not interfere.  The
\* policy fields are not written once NewRetryTransport has returned, a
\* step of one call leaves the locals of the other untouched, and under
\* every interleaving each call does what it would do alone against the
\* same executor responses.
C19_ConcurrentCallsIndependent ==
    /\ [](\A c \in TwoCalls : AsAlone(c))
    /\ [][/\ t' = t
          /\ \A c \in TwoCalls : rt'[c] # rt[c] => \A o \in TwoCalls \ {c} : rt'[o] = rt[o]]_vars

\* both calls are between their first and second attempt at once, one
\* blocked in its select and one retrying, each with its own count
C19_Witness ==
    /\ rt[1].pc = "blocked" /\ rt[1].retryCount = 0 /\ Len(rt[1].waits) = 1
    /\ rt[2].pc = "in_flight" /\ rt[2].retryCount = 1 /\ Len(rt[2].calls) = 2
    /\ rt[1].retryInterval = 10 * Millisecond
    /\ rt[2].retryInterval = 20 * Millisecond


(***************************************************************************)
(* ReplaceHeader (xnet/xhttp/header.go).                                   *)
(*                                                                         *)
(* A header key is the sequence of its "-"-separated segments, so that     *)
(* a + "-" + b is a \o b; a segment is a string.  Keys with characters     *)
(* that are invalid in a header name are outside the model.                *)
(***************************************************************************)
\* the longest chain index a run reaches
MaxIndex == 3

\* textproto canonical form of one segment: first letter upper case, the
\* others lower case; digits are left alone
CanonicalSegment(s) ==
    CASE s \in {"prefix", "Prefix", "PREFIX"} -> "Prefix"
      [] s \in {"header", "Header", "HEADER"} -> "Header"
      [] s \in {"key", "Key", "KEY"} -> "Key"
      [] s \in {"copy", "Copy", "COPY"} -> "Copy"
      [] OTHER -> s

\* http.CanonicalHeaderKey
CanonicalHeaderKey(k) == [i \in 1..Len(k) |-> CanonicalSegment(k[i])]

Digits == <<"0", "1", "2", "3", "4", "5", "6", "7", "8", "9">>

\* strconv.Itoa for i >= 0
RECURSIVE Itoa(_)
Itoa(i) == IF i < 10 THEN Digits[i + 1] ELSE Itoa(i \div 10) \o Digits[(i % 10) + 1]

\* headers[k] = v on the map m
Put(m, k, v) == [x \in (DOMAIN m) \cup {k} |-> IF x = k THEN v ELSE m[x]]

\* lines 327-335: the loop, entered at index i with v the values to store
RECURSIVE ShiftChain(_, _, _, _, _)
ShiftChain(m, prefix, key, i, v) ==
    LET k == prefix \o <<Itoa(i)>> \o key
    IN  IF k \in DOMAIN m
        THEN ShiftChain(Put(m, k, v), prefix, key, i + 1, m[k])
        ELSE Put(m, k, v)

\* ReplaceHeader without the shift of lines 325-336
ReplaceHeader_noShift(headers, prefix, key, values) ==
    IF headers.isNil THEN headers
    ELSE LET p == CanonicalHeaderKey(prefix)
             k == CanonicalHeaderKey(key)
             prefixedKey == p \o k
             m2 == IF k \in DOMAIN headers.m
                   THEN Put(headers.m, prefixedKey, headers.m[k])
                   ELSE headers.m
         IN  [headers EXCEPT !.m = Put(m2, CanonicalHeaderKey(k), values)]

\* lines 316-343
ReplaceHeader(headers, prefix, key, values) ==
    IF headers.isNil THEN headers
    ELSE LET p == CanonicalHeaderKey(prefix)
             k == CanonicalHeaderKey(key)
             prefixedKey == p \o k
             m1 == IF prefixedKey \in DOMAIN headers.m
                   THEN ShiftChain(headers.m, p, k, 1, headers.m[prefixedKey])
                   ELSE headers.m
             m2 == IF k \in DOMAIN m1
                   THEN Put(m1, prefixedKey, m1[k])
                   ELSE m1
         IN  [headers EXCEPT !.m = Put(m2, CanonicalHeaderKey(k), values)]

\* spellings of the prefix and of the key a caller passes
Prefixes == {<<"prefix">>, <<"Prefix">>}

HeaderKeys == {<<"header", "key">>, <<"Header", "Key">>}

\* value lists: none, one value, several values
ValueLists == {<<>>, <<"val1">>, <<"val5, val6", "val7">>}

\* keys a header map holds at the start: the key, its prefixed copies, a
\* key that only shares the name, and a key stored in a non-canonical form
StoredKeys ==
    {<<"Header", "Key">>, <<"Prefix", "Header", "Key">>,
     <<"Prefix", "1", "Header", "Key">>, <<"Prefix", "2", "Header", "Key">>,
     <<"Header", "Key", "Copy">>, <<"header", "key">>}

HeaderMaps == UNION {[ks -> ValueLists] : ks \in SUBSET StoredKeys}

\* a call of ReplaceHeader on the header, lines 316-343
ReplaceHeaderCall ==
    /\ header.isNil \/ <<"Prefix", Itoa(MaxIndex), "Header", "Key">> \notin DOMAIN header.m
    /\ \E prefix \in Prefixes, key \in HeaderKeys, values \in ValueLists :
        /\ header' = ReplaceHeader(header, prefix, key, values)
        /\ replaced' = [done |-> TRUE, before |-> header, prefix |-> prefix,
                        key |-> key, values |-> values]
    /\ UNCHANGED <<ctor, t, rt, exist, rc, joined, dim>>

InitHeader ==
    /\ ctor = Returned
    /\ t = "none"
    /\ rt \in FreshCalls(RespRequests, {})
    /\ header \in {NilHeader} \cup [isNil : {FALSE}, m : HeaderMaps]
    /\ replaced = NotReplaced
    /\ exist = NoExist
    /\ rc = NoDrainClose
    /\ joined = NotJoined
    /\ dim = NoDim

NextHeader == ReplaceHeaderCall

SpecHeader == InitHeader /\ [][NextHeader]_vars

\* index of the last key of the contiguous chain Prefix-Key, Prefix-1-Key,
\* ... held by m: -1 when Prefix-Key is absent, 0 when only Prefix-Key is
RECURSIVE ChainEnd(_, _, _, _)
ChainEnd(m, p, k, i) ==
    IF p \o <<Itoa(i + 1)>> \o k \in DOMAIN m THEN ChainEnd(m, p, k, i + 1) ELSE i

\* the key of the chain at index i: the key itself at -1, Prefix-Key at 0
ChainKey(p, k, i) ==
    IF i = -1 THEN k ELSE IF i = 0 THEN p \o k ELSE p \o <<Itoa(i)>> \o k

\* C20: after ReplaceHeader on non-nil headers the canonical key holds the
\* values passed; the old values of the key are under Prefix-Key, those of
\* Prefix-Key under Prefix-1-Key, those of each Prefix-i-Key of the
\* contiguous chain under Prefix-(i+1)-Key; every key outside the chain
\* holds what it held and no other key appeared; nil headers stay nil
C20_ReplaceHeaderShiftsChain ==
    replaced.done =>
        LET before == replaced.before
            p == CanonicalHeaderKey(replaced.prefix)
            k == CanonicalHeaderKey(replaced.key)
            end == IF p \o k \in DOMAIN before.m THEN ChainEnd(before.m, p, k, 0) ELSE -1
            chain == {ChainKey(p, k, i) : i \in -1..(end + 1)}
        IN  IF before.isNil THEN header = before
            ELSE /\ ~header.isNil
                 /\ k \in DOMAIN header.m /\ header.m[k] = replaced.values
                 /\ \A i \in -1..end :
                        ChainKey(p, k, i) \in DOMAIN before.m =>
                            /\ ChainKey(p, k, i + 1) \in DOMAIN header.m
                            /\ header.m[ChainKey(p, k, i + 1)] = before.m[ChainKey(p, k, i)]
                 /\ \A x \in (DOMAIN before.m) \ chain :
                        x \in DOMAIN header.m /\ header.m[x] = before.m[x]
                 /\ DOMAIN header.m \subseteq (DOMAIN before.m) \cup chain

\* a call on headers holding the key, Prefix-Key and Prefix-1-Key with
\* three different value lists, passed in a non-canonical spelling
C20_Witness ==
    /\ replaced.done /\ ~replaced.before.isNil
    /\ replaced.key = <<"header", "key">> /\ replaced.prefix = <<"prefix">>
    /\ {<<"Header", "Key">>, <<"Prefix", "Header", "Key">>,
        <<"Prefix", "1", "Header", "Key">>, <<"header", "key">>} \subseteq DOMAIN replaced.before.m
    /\ replaced.before.m[<<"Header", "Key">>] = <<"val1">>
    /\ replaced.before.m[<<"Prefix", "Header", "Key">>] = <<"val5, val6", "val7">>
    /\ replaced.before.m[<<"Prefix", "1", "Header", "Key">>] = <<>>
    /\ replaced.values = <<"val5, val6", "val7">>
    /\ header.m[<<"Prefix", "2", "Header", "Key">>] = <<>>
    /\ header.m[<<"Prefix", "1", "Header", "Key">>] = <<"val5, val6", "val7">>
    /\ header.m[<<"Prefix", "Header", "Key">>] = <<"val1">>


(***************************************************************************)
(* Exist (xsort/exist.go).                                                 *)
(*                                                                         *)
(* int is modelled with IntBits bits, two's complement.  cmp is a function *)
(* on [0, n); a call outside [0, n) is recorded and ends the run, as the   *)
(* index expression of the closures of lines 62-100 would.                 *)
(***************************************************************************)
\* width of int
IntBits == 5

\* largest cmp argument list explored with arbitrary results
MaxAnyN == 6

\* cmp calls after which a run is no longer followed
MaxCmpCalls == 8

minSizeForBinarySearch == 6

RECURSIVE Pow2(_)
Pow2(k) == IF k = 0 THEN 1 ELSE 2 * Pow2(k - 1)

MaxInt == Pow2(IntBits - 1) - 1

MinInt == -Pow2(IntBits - 1)

\* the int an arithmetic result wraps to
WrapInt(x) == ((x - MinInt) % Pow2(IntBits)) + MinInt

\* the conversion uint(x) of an int x
Uint(x) == x % Pow2(IntBits)

\* h with the sum taken as a signed int
Midpoint_signed(i, j) == WrapInt(i + j) \div 2

\* line 42: h := int(uint(i+j) >> 1)
Midpoint(i, j) == Uint(WrapInt(i + j)) \div 2

\* cmp functions consistent with a sorted sequence of n elements: -1 on a
\* prefix, 0 on a middle run, +1 on the rest
SortedCmps(n) ==
    {[x \in 0..(n - 1) |-> IF x < ab[1] THEN -1 ELSE IF x < ab[2] THEN 0 ELSE 1] :
        ab \in {p \in (0..n) \X (0..n) : p[1] <= p[2]}}

\* results of a cmp function that is not held to -1, 0, +1
CmpValues == {-1, 0, 1, 2}

AnyCmps(n) == [0..(n - 1) -> CmpValues]

\* Exist(n, cmp) is about to be called
ExistCall(n, cmp) ==
    [n |-> n, cmp |-> cmp, pc |-> "start", i |-> 0, j |-> 0, called |-> <<>>, ret |-> FALSE]

\* line 30: the choice of the search, and lines 31 and 40
ExistBegin ==
    /\ exist.pc = "start"
    /\ exist' = [exist EXCEPT !.pc = IF exist.n < minSizeForBinarySearch
                                     THEN "linear" ELSE "binary",
                              !.i = 0,
                              !.j = exist.n]
    /\ UNCHANGED <<ctor, t, rt, header, replaced, rc, joined, dim>>

\* lines 31-36: one test of the loop condition, and the iteration if it holds
ExistLinear ==
    /\ exist.pc = "linear"
    /\ Len(exist.called) < MaxCmpCalls
    /\ exist' = IF exist.i < exist.n
                THEN IF exist.cmp[exist.i] = 0
                     THEN [exist EXCEPT !.called = Append(@, exist.i),
                                        !.pc = "returned", !.ret = TRUE]
                     ELSE [exist EXCEPT !.called = Append(@, exist.i),
                                        !.i = WrapInt(@ + 1)]
                ELSE [exist EXCEPT !.pc = "returned", !.ret = FALSE]
    /\ UNCHANGED <<ctor, t, rt, header, replaced, rc, joined, dim>>

\* lines 41-53: one test of the loop condition, and the iteration if it holds
ExistBinary ==
    /\ exist.pc = "binary"
    /\ Len(exist.called) < MaxCmpCalls
    /\ LET h == Midpoint(exist.i, exist.j)
       IN  exist' = IF exist.i < exist.j
                    THEN IF h \notin DOMAIN exist.cmp
                         THEN [exist EXCEPT !.called = Append(@, h), !.pc = "panicked"]
                         ELSE CASE exist.cmp[h] = 0 ->
                                     [exist EXCEPT !.called = Append(@, h),
                                                   !.pc = "returned", !.ret = TRUE]
                                [] exist.cmp[h] = -1 ->
                                     [exist EXCEPT !.called = Append(@, h),
                                                   !.i = WrapInt(h + 1)]
                                [] exist.cmp[h] = 1 ->
                                     [exist EXCEPT !.called = Append(@, h), !.j = h]
                                [] OTHER ->
                                     [exist EXCEPT !.called = Append(@, h)]
                    ELSE [exist EXCEPT !.pc = "returned", !.ret = FALSE]
    /\ UNCHANGED <<ctor, t, rt, header, replaced, rc, joined, dim>>

\* lines 29-54
Exist == ExistBegin \/ ExistLinear \/ ExistBinary

\* Exist on every length an int holds, with cmp consistent with a sorted
\* sequence
InitExist ==
    /\ ctor = Returned
    /\ t = "none"
    /\ rt \in FreshCalls(RespRequests, {})
    /\ header = NilHeader
    /\ replaced = NotReplaced
    /\ exist \in UNION {{ExistCall(n, cmp) : cmp \in SortedCmps(n)} : n \in 0..MaxInt}
    /\ rc = NoDrainClose
    /\ joined = NotJoined
    /\ dim = NoDim

NextExist == Exist

SpecExist == InitExist /\ [][NextExist]_vars

\* C21: with cmp consistent with a sorted sequence, Exist calls cmp only
\* with arguments in [0, n) and, in the linear and in the binary search
\* alike, returns true iff cmp is 0 at some index of [0, n)
C21_ExistFindsZeroOfSortedCmp ==
    /\ exist.pc # "panicked"
    /\ \A k \in 1..Len(exist.called) : exist.called[k] \in 0..(exist.n - 1)
    /\ exist.pc = "returned" =>
           (exist.ret <=> \E x \in 0..(exist.n - 1) : exist.cmp[x] = 0)

\* the binary search on the longest sequence found the 0 in the last
\* position, after midpoints whose sum i + j exceeds MaxInt
C21_Witness ==
    /\ exist.pc = "returned" /\ exist.ret
    /\ exist.n = MaxInt /\ exist.n >= minSizeForBinarySearch
    /\ exist.cmp[MaxInt - 1] = 0 /\ exist.cmp[MaxInt - 2] = -1
    /\ exist.i + exist.j > MaxInt


\* Exist with cmp functions returning any of CmpValues
InitExistAny ==
    /\ ctor = Returned
    /\ t = "none"
    /\ rt \in FreshCalls(RespRequests, {})
    /\ header = NilHeader
    /\ replaced = NotReplaced
    /\ exist \in UNION {{ExistCall(n, cmp) : cmp \in AnyCmps(n)} : n \in 0..MaxAnyN}
    /\ rc = NoDrainClose
    /\ joined = NotJoined
    /\ dim = NoDim

NextExistAny == Exist

SpecExistAny == InitExistAny /\ [][NextExistAny]_vars

\* C28: whatever cmp returns, Exist makes at most n calls of cmp and then
\* returns
C28_ExistMakesAtMostNCalls ==
    Len(exist.called) <= exist.n


(***************************************************************************)
(* DrainClose (xio/io.go), step by step.                                   *)
(*                                                                         *)
(* A ReadCloser holds data chunks; its Read number failAt (counted from 0) *)
(* fails with io.ErrNoProgress, none fails when failAt is -1; its Close    *)
(* returns closeErr.  io.Copy reads until io.EOF, which it reports as nil, *)
(* or until a Read fails.                                                  *)
(***************************************************************************)
\* chunks of the longest stream
MaxChunks == 3

ReadClosers ==
    {r \in [isNil : {FALSE}, data : 0..MaxChunks, failAt : -1..MaxChunks,
            closeErr : {"nil", "io.ErrUnexpectedEOF"}, pc : {"start"},
            reads : {0}, closes : {0}, derr : {"nil"}, ret : {"nil"}] :
        r.failAt <= r.data}
    \cup {[NoDrainClose EXCEPT !.pc = "start"]}

\* lines 16-18
DrainCloseBegin ==
    /\ rc.pc = "start"
    /\ rc' = IF rc.isNil
             THEN [rc EXCEPT !.pc = "returned", !.ret = "nil"]
             ELSE [rc EXCEPT !.pc = "copy"]
    /\ UNCHANGED <<ctor, t, rt, header, replaced, exist, joined, dim>>

\* line 20: one Read of io.Copy(io.Discard, rc)
CopyRead ==
    /\ rc.pc = "copy"
    /\ rc' = IF rc.reads = rc.failAt
             THEN [rc EXCEPT !.reads = @ + 1, !.derr = "io.ErrNoProgress", !.pc = "close"]
             ELSE IF rc.data > 0
             THEN [rc EXCEPT !.reads = @ + 1, !.data = @ - 1]
             ELSE [rc EXCEPT !.reads = @ + 1, !.derr = "nil", !.pc = "close"]
    /\ UNCHANGED <<ctor, t, rt, header, replaced, exist, joined, dim>>

\* Close is skipped when the drain failed
CloseAndReturn_skipAfterReadError ==
    /\ rc.pc = "close"
    /\ rc' = IF rc.derr # "nil"
             THEN [rc EXCEPT !.pc = "returned", !.ret = rc.derr]
             ELSE [rc EXCEPT !.closes = @ + 1, !.pc = "returned",
                             !.ret = IF rc.closeErr # "nil" THEN rc.closeErr ELSE rc.derr]
    /\ UNCHANGED <<ctor, t, rt, header, replaced, exist, joined, dim>>

\* lines 22-26
CloseAndReturn ==
    /\ rc.pc = "close"
    /\ rc' = [rc EXCEPT !.closes = @ + 1, !.pc = "returned",
                        !.ret = IF rc.closeErr # "nil" THEN rc.closeErr ELSE rc.derr]
    /\ UNCHANGED <<ctor, t, rt, header, replaced, exist, joined, dim>>

InitDrainClose ==
    /\ ctor = Returned
    /\ t = "none"
    /\ rt \in FreshCalls(RespRequests, {})
    /\ header = NilHeader
    /\ replaced = NotReplaced
    /\ exist = NoExist
    /\ rc \in ReadClosers
    /\ joined = NotJoined
    /\ dim = NoDim

NextDrainClose == DrainCloseBegin \/ CopyRead \/ CloseAndReturn

SpecDrainClose == InitDrainClose /\ [][NextDrainClose]_vars

\* C22: DrainClose never closes twice; when it has returned, a non-nil
\* ReadCloser was closed exactly once, also after a failed Read, and the
\* result is the Close error if Close failed, else the drain error, else
\* nil; a nil ReadCloser was neither read nor closed and the result is nil
C22_DrainCloseClosesOnce ==
    /\ rc.closes <= 1
    /\ rc.pc = "returned" =>
           IF rc.isNil
           THEN rc.reads = 0 /\ rc.closes = 0 /\ rc.ret = "nil"
           ELSE /\ rc.closes = 1
                /\ rc.ret = IF rc.closeErr # "nil" THEN rc.closeErr
                            ELSE IF rc.failAt # -1 THEN "io.ErrNoProgress"
                            ELSE "nil"
                /\ rc.ret = DrainClose("open", IF rc.failAt # -1 THEN "io.ErrNoProgress" ELSE "nil",
                                       rc.closeErr).err

\* a Read failed after some data was read, Close failed too, and the Close
\* error was returned
C22_Witness ==
    /\ rc.pc = "returned" /\ ~rc.isNil
    /\ rc.failAt = 1 /\ rc.reads = 2 /\ rc.derr = "io.ErrNoProgress"
    /\ rc.closeErr = "io.ErrUnexpectedEOF" /\ rc.closes = 1
    /\ rc.ret = "io.ErrUnexpectedEOF"


(***************************************************************************)
(* Join (xerrors/join.go).                                                 *)
(*                                                                         *)
(* An error value is nil, a plain error (no StackTrace method), a traced   *)
(* error (implements StackTracer) or a *withStack built by Join around the *)
(* plain error of the same id; ids tell error values apart.                *)
(***************************************************************************)
\* length of the longest argument list of Join
MaxErrs == 3

ErrorIds == {1, 2}

ErrorValues ==
    {NilError} \cup [kind : {"plain", "traced"}, id : ErrorIds]

\* lines 41-46: err.(StackTracer) fails for a plain error, which is put
\* in a new withStack
WithStackIfMissing(err) ==
    IF err.kind = "plain" THEN [kind |-> "withStack", id |-> err.id] ELSE err

\* withStack.Unwrap (part_004 line 61): the error a withStack was built around
UnwrapWithStack(err) ==
    IF err.kind = "withStack" THEN [kind |-> "plain", id |-> err.id] ELSE NilError

\* lines 37-48: the second loop, over errs from index i on
RECURSIVE Collect(_, _)
Collect(errs, i) ==
    IF i > Len(errs) THEN <<>>
    ELSE IF errs[i] = NilError THEN Collect(errs, i + 1)
    ELSE <<WithStackIfMissing(errs[i])>> \o Collect(errs, i + 1)

\* lines 25-30: the first loop, counting the non-nil errors from index i on
RECURSIVE CountNonNil(_, _)
CountNonNil(errs, i) ==
    IF i > Len(errs) THEN 0
    ELSE (IF errs[i] # NilError THEN 1 ELSE 0) + CountNonNil(errs, i + 1)

\* Join that stores every non-nil error as it is
Join_asIs(errs) ==
    IF CountNonNil(errs, 1) = 0
    THEN [isNil |-> TRUE, errs |-> <<>>]
    ELSE [isNil |-> FALSE, errs |-> SelectSeq(errs, LAMBDA e : e # NilError)]

\* lines 24-50; the result is nil or a *joinError with its errs
Join(errs) ==
    IF CountNonNil(errs, 1) = 0
    THEN [isNil |-> TRUE, errs |-> <<>>]
    ELSE [isNil |-> FALSE, errs |-> Collect(errs, 1)]

\* lines 119-121: joinError.Unwrap
Unwrap(e) == e.errs

JoinArgs == UNION {[1..n -> ErrorValues] : n \in 0..MaxErrs}

JoinCall ==
    /\ ~joined.done
    /\ joined' = [joined EXCEPT !.done = TRUE, !.ret = Join(joined.errs)]
    /\ UNCHANGED <<ctor, t, rt, header, replaced, exist, rc, dim>>

InitJoin ==
    /\ ctor = Returned
    /\ t = "none"
    /\ rt \in FreshCalls(RespRequests, {})
    /\ header = NilHeader
    /\ replaced = NotReplaced
    /\ exist = NoExist
    /\ rc = NoDrainClose
    /\ joined \in [done : {FALSE}, errs : JoinArgs, ret : {NotJoined.ret}]
    /\ dim = NoDim

NextJoin == JoinCall

SpecJoin == InitJoin /\ [][NextJoin]_vars

\* the non-nil elements of the arguments of Join, in their order
NonNilArgs == SelectSeq(joined.errs, LAMBDA e : e # NilError)

\* C23 as stated: Join returns nil iff every element of errs is nil, and
\* otherwise the result unwraps to exactly the non-nil elements of errs, in
\* their order
C23_JoinUnwrapsToNonNilArgs ==
    joined.done =>
        /\ joined.ret.isNil <=> (\A k \in 1..Len(joined.errs) : joined.errs[k] = NilError)
        /\ ~joined.ret.isNil => Unwrap(joined.ret) = NonNilArgs

\* C23 as the code has it: Join returns nil iff every element of errs is
\* nil; otherwise the result unwraps to one element per non-nil element of
\* errs, in their order: the element itself when it implements StackTracer,
\* else a withStack that unwraps to the element
C23_JoinUnwrapsToTracedArgs ==
    joined.done =>
        /\ joined.ret.isNil <=> (\A k \in 1..Len(joined.errs) : joined.errs[k] = NilError)
        /\ ~joined.ret.isNil =>
               /\ Len(Unwrap(joined.ret)) = Len(NonNilArgs)
               /\ \A k \in 1..Len(NonNilArgs) :
                      IF NonNilArgs[k].kind = "traced"
                      THEN Unwrap(joined.ret)[k] = NonNilArgs[k]
                      ELSE /\ Unwrap(joined.ret)[k].kind = "withStack"
                           /\ UnwrapWithStack(Unwrap(joined.ret)[k]) = NonNilArgs[k]

\* Join(nil, plain 1, traced 2) returned a joinError of two errors
C23_Witness ==
    /\ joined.done /\ ~joined.ret.isNil
    /\ joined.errs = <<NilError, [kind |-> "plain", id |-> 1], [kind |-> "traced", id |-> 2]>>
    /\ Len(Unwrap(joined.ret)) = 2


(***************************************************************************)
(* DimInt and DimInt64 (xmath/dim.go).                                     *)
(*                                                                         *)
(* int has IntBits bits and int64 has Int64Bits bits, two's complement;    *)
(* Go's subtraction wraps around silently.                                 *)
(***************************************************************************)
\* width of int64
Int64Bits == 6

MaxInt64 == Pow2(Int64Bits - 1) - 1

MinInt64 == -Pow2(Int64Bits - 1)

\* the int64 an arithmetic result wraps to
WrapInt64(x) == ((x - MinInt64) % Pow2(Int64Bits)) + MinInt64

\* lines 11-17
DimInt(x, y) ==
    LET v == WrapInt(x - y)
    IN  IF v <= 0 THEN 0 ELSE v

\* lines 21-27
DimInt64(x, y) ==
    LET v == WrapInt64(x - y)
    IN  IF v <= 0 THEN 0 ELSE v

DimIntCall ==
    /\ dim.fn = "DimInt" /\ ~dim.done
    /\ dim' = [dim EXCEPT !.done = TRUE, !.ret = DimInt(dim.x, dim.y)]
    /\ UNCHANGED <<ctor, t, rt, header, replaced, exist, rc, joined>>

DimInt64Call ==
    /\ dim.fn = "DimInt64" /\ ~dim.done
    /\ dim' = [dim EXCEPT !.done = TRUE, !.ret = DimInt64(dim.x, dim.y)]
    /\ UNCHANGED <<ctor, t, rt, header, replaced, exist, rc, joined>>

\* every pair of int and every pair of int64
InitDim ==
    /\ ctor = Returned
    /\ t = "none"
    /\ rt \in FreshCalls(RespRequests, {})
    /\ header = NilHeader
    /\ replaced = NotReplaced
    /\ exist = NoExist
    /\ rc = NoDrainClose
    /\ joined = NotJoined
    /\ dim \in [fn : {"DimInt"}, x : MinInt..MaxInt, y : MinInt..MaxInt,
                done : {FALSE}, ret : {0}]
               \cup [fn : {"DimInt64"}, x : MinInt64..MaxInt64, y : MinInt64..MaxInt64,
                     done : {FALSE}, ret : {0}]

NextDim == DimIntCall \/ DimInt64Call

SpecDim == InitDim /\ [][NextDim]_vars

\* C24: DimInt(x, y) and DimInt64(x, y) return the maximum of the
\* mathematical value x - y and 0, for every pair of machine integers
C24_DimIsMaxOfDifferenceAndZero ==
    dim.done => dim.ret = (IF dim.x - dim.y > 0 THEN dim.x - dim.y ELSE 0)


(***************************************************************************)
(* Cancellation and the attempt in flight.                                 *)
(***************************************************************************)
\* C25: cancellation is acted on only in the select between attempts.  An
\* executor call that was entered ends with the executor's response or
\* error, canceled context or not; RoundTrip returns on the cancellation
\* path only from the select that follows the last response; a response
\* that is not retried is returned with a nil error, and an executor error
\* as it is, whether or not the context is canceled
C25_CancelOnlyAtWait ==
    /\ [](ret.returned =>
            /\ ret.path = "cancel" =>
                   /\ ctxDone /\ timers = Len(resps) /\ Len(resps) >= 1
                   /\ timer \in {"stopped", "fired"}
                   /\ ret.resp = Len(resps) /\ ret.err = "nil"
            /\ ret.path = "final" =>
                   /\ ret.resp = Len(resps) /\ ret.err = "nil"
                   /\ ~reqRetryable \/ ~isResponseRetryable(Last(resps))
            /\ ret.path = "error" => ret.err = nextErr /\ nextErr # "nil")
    /\ [][(pc = "in_flight" /\ pc' # "in_flight")
            => \/ pc' = "got" /\ Len(resps') = Len(resps) + 1
               \/ pc' = "done" /\ ret'.path = "error"]_vars
    /\ [][(pc \in {"start", "loop", "in_flight", "got"} /\ ret'.returned)
            => ret'.path # "cancel"]_vars

\* the context was canceled before the first executor call ended, and the
\* 204 that call yielded was returned with a nil error
C25_Witness ==
    /\ ret.returned /\ ctxDone
    /\ ret.path = "final" /\ ret.err = "nil" /\ ret.resp = 1
    /\ Len(calls) = 1 /\ timers = 0
    /\ resps[1].StatusCode = 204


(***************************************************************************)
(* Retry-After headers that cannot be read.                                *)
(***************************************************************************)
\* first answers: 204, 413 and 503 without Retry-After, with one that reads
\* as an integer, and with the unreadable ones
FallbackResponses == [StatusCode : {204, 413, 503}, RetryAfter : {"", "1"} \cup Garbage]

InitFallback == InitWith(RespRequests, WaitPolicies, OneCall)

NextFallback ==
    \/ RoundTrip(1, MaxCallsWait, FallbackResponses, BackoffResponses)
    \/ Cancel(1)
    \/ TimerFire(1)

SpecFallback == InitFallback /\ [][NextFallback]_vars

\* the waits computeWaitDuration yields for the current interval and the
\* jitter factor of the policy when the response has no Retry-After header
ComputedBackoffs ==
    {computeWaitDuration(retryInterval, t.jitterFactor, [RetryAfter |-> ""], rnd, 0) :
        rnd \in Rands}

\* C26: a retryable response (a 413 included) of a retry candidate whose
\* Retry-After header is non-empty and reads neither as an integer nor as
\* an HTTP date is not returned as the final response: the wait timer is
\* created, with one of the waits computed from the current interval and
\* the jitter as for a response without the header, the clock is not read,
\* and once the timer has fired the next attempt follows
C26_UnreadableRetryAfterFallsBack ==
    /\ []((Len(resps) >= 1 /\ reqRetryable
           /\ Last(resps).StatusCode \in {413, 503} /\ Last(resps).RetryAfter \in Garbage)
            => /\ isResponseRetryable(Last(resps))
               /\ pc = "got" => (ENABLED StartTimer(1) /\ ~ENABLED ReturnResponse(1))
               /\ Waiting => /\ Last(waits).d \in ComputedBackoffs
                             /\ Last(waits).now = -1
               /\ ret.returned => ret.path # "final")
    /\ [][(pc = "case_timer" /\ pc' # pc) => (pc' = "loop" /\ retryCount' = retryCount + 1)]_vars
    /\ [][(pc = "loop" /\ pc' # pc) => (pc' = "in_flight" /\ Len(calls') = Len(calls) + 1)]_vars

\* a 413 with Retry-After: soon was answered to a jittered policy; after a
\* wait below the interval the second attempt was made
C26_Witness ==
    /\ Len(calls) = 2 /\ retryCount = 1
    /\ resps[1] = [StatusCode |-> 413, RetryAfter |-> "soon"]
    /\ t.initialInterval = MaxNanos /\ t.jitterFactor = Float(1, 2)
    /\ waits[1].d < t.initialInterval /\ waits[1].d > 0


(***************************************************************************)
(* Request bodies obtained from GetBody.                                   *)
(***************************************************************************)
\* the rewound bodies RoundTrip closes itself: lines 147-164 hold no call
\* of Close on a request body
ClosedRewinds == {}

\* the rewound bodies handed to the executor
SentRewinds == {calls[k] : k \in 1..Len(calls)} \ {0}

\* C27: when RoundTrip has returned, every body obtained from GetBody was
\* handed to the executor in a later attempt or closed by the transport
C27_RewoundBodyUsedOrClosed ==
    ret.returned => \A b \in 1..rewinds : b \in SentRewinds \/ b \in ClosedRewinds


C30_CallerRequestUntouched ==
    /\ [][req' = req]_vars
    /\ [](\A k \in 1..Len(calls) : calls[k] = IF req.GetBody THEN k - 1 ELSE 0)
    /\ [](rewinds > 0 => req.GetBody)

\* a request with GetBody was sent three times, the second and third time
\* as clones with fresh bodies, and RoundTrip returned
C30_Witness ==
    /\ ret.returned
    /\ req.GetBody /\ req.Body = "data"
    /\ calls = <<0, 1, 2>> /\ rewinds = 2

====
